---- MODULE Spec2Model ----
(***************************************************************************)
(* noteNinja backend (src/backend/server.js): the cipher, the auto-save    *)
(* coordinator (pendingNotes, saveTimers, noteEditStartTimes), the         *)
(* socket.io relay, the HTTP routes and the shutdown handlers, as one      *)
(* state machine.  A text is a sequence of UTF-16 code units.  A store call *)
(* (upsert, select, insert, delete) is in flight from the step that issues *)
(* it to the step in which the store applies it and the awaiting handler   *)
(* resumes; every synchronous stretch of a handler is one step.  The React  *)
(* client (src/unnamed/part_000) is modelled by its note view: the debounce *)
(* timer and saveNote.                                                     *)
(***************************************************************************)
EXTENDS Integers, Sequences, FiniteSets, TLC

\* ------------------------------------------------------------------ bounds
MaxTimers == 2      \* timer handles per note that can be outstanding at once
MaxForce == 1       \* force-save requests per note that can overlap
MaxSignals == 2     \* shutdown signals delivered to the process
MaxTime == 1        \* clock readings 0..MaxTime
MaxGets == 2        \* fetch-by-id requests per note that can overlap
MaxPosts == 1       \* save requests of one client that can overlap

NoteIds == {"n1", "n2"}
Conns == {"X", "Y", "Z"}
\* Inputs: the notes, the sockets, the {heading, content} payloads clients send
\* and the ivs crypto.randomBytes may return.
Edits == {[heading |-> <<72>>, content |-> <<97>>], [heading |-> <<>>, content |-> <<98>>]}
IVs == {1, 2}
OneNote == {"n1"}
OneIV == {1}
OneEdit == {[heading |-> <<72>>, content |-> <<97>>]}

\* ------------------------------------------------------------------ cipher
Key == 7
Byte == 256
DecryptError == <<-1>>
Untitled == <<85, 110, 116, 105, 116, 108, 101, 100>>

RECURSIVE SumRange(_, _, _)
SumRange(s, lo, hi) ==
  IF lo > hi THEN 0
  ELSE IF lo = hi THEN s[lo]
  ELSE SumRange(s, lo, (lo + hi) \div 2) + SumRange(s, (lo + hi) \div 2 + 1, hi)

SumSeq(s) == SumRange(s, 1, Len(s))

KeyStream(iv, i) == (Key * (iv + 1) + i) % Byte

AuthTag(ct, iv) == (SumSeq(ct) + Key + iv) % Byte

\* A text is a JavaScript string: a sequence of UTF-16 code units.
IsHigh(u) == u >= 55296 /\ u <= 56319
IsLow(u) == u >= 56320 /\ u <= 57343
Replacement == 65533

\* The "utf8" input encoding of cipher.update, code unit i of t: a surrogate pair
\* is one code point of four bytes, written at its high half; an unpaired
\* surrogate is encoded as U+FFFD.
UnitBytes(t, i) ==
  LET u == t[i]
  IN IF u < 128 THEN <<u>>
     ELSE IF u < 2048 THEN <<192 + (u \div 64), 128 + (u % 64)>>
     ELSE IF IsHigh(u) /\ i < Len(t) /\ IsLow(t[i + 1])
     THEN LET cp == 65536 + (u - 55296) * 1024 + (t[i + 1] - 56320)
          IN <<240 + (cp \div 262144), 128 + ((cp \div 4096) % 64),
               128 + ((cp \div 64) % 64), 128 + (cp % 64)>>
     ELSE IF IsLow(u) /\ i > 1 /\ IsHigh(t[i - 1]) THEN <<>>
     ELSE IF IsHigh(u) \/ IsLow(u) THEN <<239, 191, 189>>
     ELSE <<224 + (u \div 4096), 128 + ((u \div 64) % 64), 128 + (u % 64)>>

RECURSIVE EncodeRange(_, _, _)
EncodeRange(t, lo, hi) ==
  IF lo > hi THEN <<>>
  ELSE IF lo = hi THEN UnitBytes(t, lo)
  ELSE EncodeRange(t, lo, (lo + hi) \div 2) \o EncodeRange(t, (lo + hi) \div 2 + 1, hi)

\* Code units below 128 are their own single byte.
Utf8Encode(t) ==
  IF \A i \in DOMAIN t : t[i] < 128 THEN t ELSE EncodeRange(t, 1, Len(t))

\* The "utf8" output encoding of decipher.update and final, at byte i of b: a
\* lead byte gives the code units of its sequence, a continuation byte belongs
\* to the lead before it, a sequence cut short gives U+FFFD.
ByteUnits(b, i) ==
  LET x == b[i]
      n == IF x < 128 THEN 1 ELSE IF x < 224 THEN 2 ELSE IF x < 240 THEN 3 ELSE 4
  IN IF x >= 128 /\ x < 192 THEN <<>>
     ELSE IF i + n - 1 > Len(b) THEN <<Replacement>>
     ELSE CASE n = 1 -> <<x>>
            [] n = 2 -> <<(x - 192) * 64 + (b[i + 1] - 128)>>
            [] n = 3 -> <<(x - 224) * 4096 + (b[i + 1] - 128) * 64 + (b[i + 2] - 128)>>
            [] n = 4 ->
               LET cp == (x - 240) * 262144 + (b[i + 1] - 128) * 4096
                         + (b[i + 2] - 128) * 64 + (b[i + 3] - 128) - 65536
               IN <<55296 + (cp \div 1024), 56320 + (cp % 1024)>>

RECURSIVE DecodeRange(_, _, _)
DecodeRange(b, lo, hi) ==
  IF lo > hi THEN <<>>
  ELSE IF lo = hi THEN ByteUnits(b, lo)
  ELSE DecodeRange(b, lo, (lo + hi) \div 2) \o DecodeRange(b, (lo + hi) \div 2 + 1, hi)

Utf8Decode(b) ==
  IF \A i \in DOMAIN b : b[i] < 128 THEN b ELSE DecodeRange(b, 1, Len(b))

\* The "hex" encoding: two digits a byte.
ToHex(b) ==
  [i \in 1..(2 * Len(b)) |->
     IF i % 2 = 1 THEN b[(i + 1) \div 2] \div 16 ELSE b[i \div 2] % 16]

FromHex(h) == [i \in 1..(Len(h) \div 2) |-> h[2 * i - 1] * 16 + h[2 * i]]

encrypt(text, iv) ==
  LET b == Utf8Encode(text)
      ct == [i \in 1..Len(b) |-> (b[i] + KeyStream(iv, i)) % Byte]
  IN [encrypted |-> ToHex(ct), iv |-> iv, authTag |-> AuthTag(ct, iv)]

\* decipher.final throws when the tag does not authenticate.
decrypt(e) ==
  LET ct == FromHex(e.encrypted)
  IN IF AuthTag(ct, e.iv) # e.authTag
     THEN DecryptError
     ELSE Utf8Decode([i \in 1..Len(ct) |-> (ct[i] + Byte - KeyStream(e.iv, i)) % Byte])

EmptyField == [encrypted |-> <<>>, iv |-> 0, authTag |-> 0]

\* A field the payload does not carry: undefined after destructuring.
Undefined == <<-2>>

\* cipher.update throws a TypeError on undefined; saveNoteToSupabase catches it
\* before its await and returns false.
Encryptable(data) == data.heading # Undefined /\ data.content # Undefined

\* ------------------------------------------------------------------ state
VARIABLES
  pendingNotes,        \* Map in insertion order: sequence of [noteId, data]
  saveTimers,          \* noteId -> timer handle, 0 when the Map has no entry
  noteEditStartTimes,  \* noteId -> time of the first note-update, NoTime when absent
  timers,              \* scheduled timeouts not yet fired or cleared: [note, h]
  writes,              \* upserts in flight (saveNoteToSupabase awaiting); data and
                       \* clean are history
  dels,                \* store deletes in flight (DELETE route awaiting)
  gets,                \* fetch-by-id requests awaiting the store
  store,               \* the notes table: noteId -> row, NoRow when absent
  proc,                \* "running" or "exited"
  signals,             \* shutdown signals received so far
  now,                 \* the clock read by new Date()
  connected,           \* sockets connected
  rooms,               \* socket -> rooms joined with join-note
  lastEmit,            \* the last note-updated broadcast and its receivers
  getResp,             \* the last response of GET /api/note/:noteId
  listing,             \* the last response of GET /api/notes
  hist,                \* history of each note, read by the properties only
  watch,               \* the histories hist records, fixed by the specification
  client               \* socket -> state of the React client behind it

coord == <<pendingNotes, saveTimers, noteEditStartTimes, timers, writes>>
relay == <<connected, rooms, lastEmit>>
vars == <<pendingNotes, saveTimers, noteEditStartTimes, timers, writes, dels,
          gets, store, proc, signals, now, connected, rooms, lastEmit,
          getResp, listing, hist, watch, client>>

NoTime == -1
NoRow == [absent |-> TRUE]
NoData == [absent |-> TRUE]
NoEmit == [from |-> "", room |-> "", heading |-> <<>>, content |-> <<>>, to |-> {}]
NoResp == [note |-> "", status |-> 0]
\* A client on the home view: no note open, no debounce timer, no save request
\* in flight; settled (history) is the payload of its last finished saveNote call,
\* got (history) the room of the last note-updated event it handled in this view.
NoClient == [note |-> "", heading |-> <<>>, content |-> <<>>, timer |-> FALSE,
             posts |-> {}, settled |-> NoData, got |-> ""]
NoList == [status |-> 0, notes |-> <<>>, pending |-> <<>>, stored |-> <<>>]

\* ------------------------------------------------------------------ Map helpers
RECURSIVE PIndex(_, _, _)
PIndex(p, id, i) ==
  IF i > Len(p) THEN 0 ELSE IF p[i].noteId = id THEN i ELSE PIndex(p, id, i + 1)

PHas(p, id) == PIndex(p, id, 1) # 0

PGet(p, id) == IF PHas(p, id) THEN p[PIndex(p, id, 1)].data ELSE NoData

\* Map.set keeps the position of a key already present and appends a new key.
PSet(p, id, d) ==
  IF PHas(p, id)
  THEN [p EXCEPT ![PIndex(p, id, 1)] = [noteId |-> id, data |-> d]]
  ELSE Append(p, [noteId |-> id, data |-> d])

PDelete(p, id) == SelectSeq(p, LAMBDA e : e.noteId # id)

PKeys(p) == {p[i].noteId : i \in 1..Len(p)}

\* ------------------------------------------------------------------ store
Plain(row) ==
  [heading |-> IF row.heading.encrypted # <<>> THEN decrypt(row.heading) ELSE <<>>,
   content |-> IF row.content.encrypted # <<>> THEN decrypt(row.content) ELSE <<>>]

\* upsert on note_id: an absent row is inserted (created_at by the table default),
\* a present row has the given columns replaced and keeps its created_at.
Upsert(st, id, row, t) ==
  IF st[id] = NoRow
  THEN [st EXCEPT ![id] = [heading |-> row.heading, content |-> row.content,
                            created_at |-> t, updated_at |-> row.updated_at]]
  ELSE [st EXCEPT ![id] = [heading |-> row.heading, content |-> row.content,
                            created_at |-> st[id].created_at,
                            updated_at |-> row.updated_at]]

\* The row saveNoteToSupabase sends: both fields encrypted, updated_at read now.
SaveRow(data, ivh, ivc, t) ==
  [heading |-> encrypt(data.heading, ivh), content |-> encrypt(data.content, ivc),
   updated_at |-> t]

WritesOf(id) == {w \in writes : w.note = id}


\* ------------------------------------------------------------------ history
\* hist records, per note, what the properties below speak about; no action's
\* guard or effect on the program state reads it.  A specification records the
\* histories named in watch ("run", "latest", "delete", "force", "drain",
\* "persist", "flush", "absent", "session", "stamp", "keep") and leaves the others at their
\* initial value.
\*   editTimer/editFired  the handle scheduled by the latest note-update, and
\*                        whether that timeout has fired
\*   autoWrites           data of the upserts timer callbacks issued since the
\*                        first note-update of the current run of edits
\*   latest               data of the latest note-update not followed by a
\*                        force-save or delete request
\*   deleted/postDelWrite a DELETE was handled while the latest edit's timer was
\*                        still scheduled; an upsert was issued since
\*   forced               data of a force-save that reported success
\*   drains               per signal: ids pending when it arrived, ids whose save
\*                        its handler started, saw settle, saw fail
\*   shutPend/shutWrites  ids pending at the first signal; upserts applied since
\*   flushFailed          the upsert started by the latest edit's timer has failed
\*   refused              a save of the note failed in encrypt: a flush that wrote
\*                        nothing, a force-save answered 500
\*   persisted            heading and content handed to the save whose upsert the
\*                        store applied last, NoData once the row is deleted
\*   firstEdit            the clock at the first note-update since the server
\*                        started or since the note was last persisted or
\*                        deleted, NoTime when there is none
\*   created              the created_at the note's row was inserted with, NoTime
\*                        while the table has no row of the note
\*   forceResp            status of the last force-save response, 0 when none
\*   kept                 the pending heading and content a failed force-save
\*                        found with their timer scheduled, until a save of
\*                        them is applied or an edit, force-save or delete
\*                        request follows
Plain2(d) == [heading |-> d.heading, content |-> d.content]

HistInit ==
  [editTimer |-> [id \in NoteIds |-> 0],
   editFired |-> [id \in NoteIds |-> FALSE],
   autoWrites |-> [id \in NoteIds |-> <<>>],
   latest |-> [id \in NoteIds |-> NoData],
   deleted |-> [id \in NoteIds |-> FALSE],
   postDelWrite |-> [id \in NoteIds |-> FALSE],
   forced |-> [id \in NoteIds |-> NoData],
   drains |-> [k \in 1..MaxSignals |->
                 [pend |-> {}, started |-> {}, settled |-> {}, failed |-> {}]],
   shutPend |-> {},
   shutWrites |-> [id \in NoteIds |-> 0],
   persisted |-> [id \in NoteIds |-> NoData],
   flushFailed |-> [id \in NoteIds |-> FALSE],
   refused |-> [id \in NoteIds |-> FALSE],
   firstEdit |-> [id \in NoteIds |-> NoTime],
   created |-> [id \in NoteIds |-> NoTime],
   forceResp |-> [id \in NoteIds |-> 0],
   kept |-> [id \in NoteIds |-> NoData]]

Cap2(n) == IF n >= 2 THEN 2 ELSE n + 1

W(tag, new, old) == IF tag \in watch THEN new ELSE old

\* ------------------------------------------------------------------ initial state
InitServer ==
  /\ pendingNotes = <<>>
  /\ saveTimers = [id \in NoteIds |-> 0]
  /\ noteEditStartTimes = [id \in NoteIds |-> NoTime]
  /\ timers = {}
  /\ writes = {}
  /\ dels = {}
  /\ gets = {}
  /\ store = [id \in NoteIds |-> NoRow]
  /\ proc = "running"
  /\ signals = 0
  /\ now = 0
  /\ rooms = [c \in Conns |-> {}]
  /\ lastEmit = NoEmit
  /\ getResp = NoResp
  /\ listing = NoList
  /\ hist = HistInit
  /\ client = [c \in Conns |-> NoClient]

Init == InitServer /\ connected = {} /\ watch = {}

\* The server with one client connected, as after Connect("X"), recording the
\* histories ws.
Serving(ws) == InitServer /\ connected = {"X"} /\ watch = ws

\* ------------------------------------------------------------------ relay
\* io.to(noteId) in place of socket.to(noteId): the sender is not left out.
BroadcastToRoom(c, id) == {d \in connected : id \in rooms[d]}

\* socket.to(noteId): every connected socket in the room except the sender.
BroadcastTargets(c, id) == {d \in connected \ {c} : id \in rooms[d]}

Connect(c) ==
  /\ proc = "running"
  /\ c \notin connected
  /\ connected' = connected \cup {c}
  /\ UNCHANGED <<rooms, lastEmit, coord, dels, gets, store, proc, signals, now,
                 getResp, listing, hist>>
  /\ UNCHANGED <<watch, client>>

JoinNote(c, id) ==
  /\ proc = "running"
  /\ c \in connected
  /\ id \notin rooms[c]
  /\ rooms' = [rooms EXCEPT ![c] = @ \cup {id}]
  /\ UNCHANGED <<connected, lastEmit, coord, dels, gets, store, proc, signals,
                 now, getResp, listing, hist>>
  /\ UNCHANGED <<watch, client>>

\* On disconnect socket.io removes the socket from every room.
Disconnect(c) ==
  /\ proc = "running"
  /\ c \in connected
  /\ connected' = connected \ {c}
  /\ rooms' = [rooms EXCEPT ![c] = {}]
  /\ UNCHANGED <<lastEmit, coord, dels, gets, store, proc, signals, now,
                 getResp, listing, hist>>
  /\ UNCHANGED <<watch, client>>

\* ------------------------------------------------------------------ coordinator
TimerOf(id, k) == [note |-> id, h |-> k]

\* Handles a new setTimeout can return: not a scheduled timeout of the note and
\* not the handle of a callback still awaiting its save.
FreeHandles(id, live) ==
  {k \in 1..MaxTimers :
     /\ TimerOf(id, k) \notin live
     /\ ~\E w \in writes : w.note = id /\ w.src = "timer" /\ w.owner = k}

\* One timer slot for the whole server: clearing cancels every note's timeout.
ClearedAll(id) == IF saveTimers[id] # 0 THEN {} ELSE timers

\* clearTimeout(saveTimers.get(noteId)) when the Map has the note.
Cleared(id) ==
  IF saveTimers[id] # 0 THEN timers \ {TimerOf(id, saveTimers[id])} ELSE timers

ScheduleAutoSave(id, data, k) ==
  /\ pendingNotes' = PSet(pendingNotes, id, data)
  /\ timers' = Cleared(id) \cup {TimerOf(id, k)}
  /\ saveTimers' = [saveTimers EXCEPT ![id] = k]

NoteUpdate(c, id, h, ct) ==
  /\ proc = "running"
  /\ c \in connected
  /\ \E k \in FreeHandles(id, Cleared(id)) :
       /\ \A j \in FreeHandles(id, Cleared(id)) : k <= j
       /\ noteEditStartTimes' =
            IF noteEditStartTimes[id] = NoTime
            THEN [noteEditStartTimes EXCEPT ![id] = now]
            ELSE noteEditStartTimes
       /\ ScheduleAutoSave(id, [heading |-> h, content |-> ct,
                                created_at |-> noteEditStartTimes'[id],
                                updated_at |-> now], k)
       /\ lastEmit' = [from |-> c, room |-> id, heading |-> h, content |-> ct,
                       to |-> BroadcastTargets(c, id)]
       /\ writes' = {IF w.note = id THEN [w EXCEPT !.clean = FALSE] ELSE w : w \in writes}
       /\ hist' = [hist EXCEPT
            !.autoWrites[id] =
               IF hist.editTimer[id] # 0 /\ ~hist.editFired[id] THEN @ ELSE <<>>,
            !.editTimer[id] = W("run", k, @),
            !.editFired[id] = FALSE,
            !.latest[id] = W("latest", [heading |-> h, content |-> ct], @),
            !.deleted[id] = FALSE,
            !.postDelWrite[id] = FALSE,
            !.forced[id] = NoData,
            !.flushFailed[id] = FALSE,
            !.firstEdit[id] = IF @ = NoTime THEN W("session", now, @) ELSE @,
            !.kept[id] = NoData]
  /\ UNCHANGED <<connected, rooms, dels, gets, store, proc, signals, now,
                 getResp, listing>>
  /\ UNCHANGED <<watch, client>>

\* ivh, ivc: the ivs crypto.randomBytes hands to the two encrypt calls of a save.
\* The timeout callback up to its await: read the pending data and start the save,
\* or, with nothing pending or a save that fails in encrypt, drop the saveTimers
\* entry at once.
TimerFire(id, k, ivh, ivc) ==
  /\ proc = "running"
  /\ TimerOf(id, k) \in timers
  /\ timers' = timers \ {TimerOf(id, k)}
  /\ IF PHas(pendingNotes, id) /\ Encryptable(PGet(pendingNotes, id))
     THEN /\ writes' = writes \cup
               {[note |-> id, row |-> SaveRow(PGet(pendingNotes, id), ivh, ivc, now),
                 src |-> "timer", owner |-> k, clean |-> FALSE,
                 data |-> Plain2(PGet(pendingNotes, id))]}
          /\ UNCHANGED saveTimers
     ELSE /\ saveTimers' = [saveTimers EXCEPT ![id] = 0]
          /\ UNCHANGED writes
  /\ hist' = [hist EXCEPT
       !.editFired[id] = IF k = hist.editTimer[id] THEN TRUE ELSE @,
       !.autoWrites[id] =
          IF PHas(pendingNotes, id) /\ Encryptable(PGet(pendingNotes, id)) /\ Len(@) < 2
          THEN W("run", Append(@, Plain2(PGet(pendingNotes, id))), @) ELSE @,
       !.postDelWrite[id] = @ \/ (hist.deleted[id] /\ PHas(pendingNotes, id)),
       !.refused[id] =
          IF PHas(pendingNotes, id) /\ ~Encryptable(PGet(pendingNotes, id))
          THEN W("absent", TRUE, @) ELSE @]
  /\ UNCHANGED <<pendingNotes, noteEditStartTimes, dels, gets, store, proc,
                 signals, now, relay, getResp, listing>>
  /\ UNCHANGED <<watch, client>>

\* What the awaiting caller does once saveNoteToSupabase has returned.
AfterSave(w, ok) ==
  /\ saveTimers' =
       IF w.src = "timer" \/ (w.src = "force" /\ ok)
       THEN [saveTimers EXCEPT ![w.note] = 0] ELSE saveTimers
  /\ timers' = IF w.src = "force" /\ ok THEN Cleared(w.note) ELSE timers
  /\ proc' =
       IF w.src = "drain" /\ ~\E v \in writes \ {w} : v.src = "drain" /\ v.owner = w.owner
       THEN "exited" ELSE proc

SettleHist(w, ok) ==
  [hist EXCEPT
     !.shutWrites[w.note] = IF ok /\ signals > 0 THEN W("drain", Cap2(@), @) ELSE @,
     !.forced[w.note] = IF ok /\ w.src = "force" /\ w.clean THEN Plain(w.row) ELSE @,
     !.persisted[w.note] = IF ok THEN W("persist", w.data, @) ELSE @,
     !.firstEdit[w.note] = IF ok THEN NoTime ELSE @,
     !.created[w.note] = IF ok /\ store[w.note] = NoRow THEN W("stamp", now, @) ELSE @,
     !.forceResp[w.note] =
        IF w.src = "force" THEN W("keep", IF ok THEN 200 ELSE 500, @) ELSE @,
     !.kept[w.note] =
        IF ok
        THEN (IF w.data = @ THEN NoData ELSE @)
        ELSE IF /\ w.src = "force"
                /\ PHas(pendingNotes, w.note)
                /\ saveTimers[w.note] # 0
                /\ TimerOf(w.note, saveTimers[w.note]) \in timers
             THEN W("keep", Plain2(PGet(pendingNotes, w.note)), @)
             ELSE @,
     !.flushFailed[w.note] =
        IF ~ok /\ w.src = "timer" /\ w.owner = hist.editTimer[w.note]
               /\ hist.editFired[w.note]
        THEN W("flush", TRUE, @) ELSE @,
     !.drains = IF w.src = "drain"
                THEN W("drain",
                       [@ EXCEPT ![w.owner].settled = @ \cup {w.note},
                                 ![w.owner].failed = IF ok THEN @ ELSE @ \cup {w.note}], @)
                ELSE @]

\* The upsert succeeds: the store applies the row, saveNoteToSupabase drops the
\* pending entry and returns true.
WriteOk(w) ==
  /\ proc = "running"
  /\ w \in writes
  /\ writes' = writes \ {w}
  /\ store' = Upsert(store, w.note, w.row, now)
  /\ pendingNotes' = PDelete(pendingNotes, w.note)
  /\ AfterSave(w, TRUE)
  /\ hist' = SettleHist(w, TRUE)
  /\ UNCHANGED <<noteEditStartTimes, dels, gets, signals, now, relay, getResp, listing>>
  /\ UNCHANGED <<watch, client>>

\* A failed save that drops the pending record as a successful one does.
WriteFailDrops(w) ==
  /\ proc = "running"
  /\ w \in writes
  /\ writes' = writes \ {w}
  /\ pendingNotes' = PDelete(pendingNotes, w.note)
  /\ AfterSave(w, FALSE)
  /\ hist' = SettleHist(w, FALSE)
  /\ UNCHANGED <<noteEditStartTimes, dels, gets, store, signals,
                 now, relay, getResp, listing>>
  /\ UNCHANGED <<watch, client>>

\* The upsert reports an error: saveNoteToSupabase logs it and returns false.
WriteFail(w) ==
  /\ proc = "running"
  /\ w \in writes
  /\ writes' = writes \ {w}
  /\ AfterSave(w, FALSE)
  /\ hist' = SettleHist(w, FALSE)
  /\ UNCHANGED <<pendingNotes, noteEditStartTimes, dels, gets, store, signals,
                 now, relay, getResp, listing>>
  /\ UNCHANGED <<watch, client>>

FreeForce(id) ==
  {k \in 1..MaxForce : ~\E w \in writes : w.note = id /\ w.src = "force" /\ w.owner = k}

\* The route up to its await; with a field absent the save fails in encrypt and
\* the route answers 500 at once.
ForceSave(id, h, ct, ivh, ivc) ==
  /\ proc = "running"
  /\ \E k \in FreeForce(id) :
       /\ \A j \in FreeForce(id) : k <= j
       /\ writes' =
            IF ~Encryptable([heading |-> h, content |-> ct])
            THEN {IF w.note = id THEN [w EXCEPT !.clean = FALSE] ELSE w : w \in writes}
            ELSE
            {IF w.note = id THEN [w EXCEPT !.clean = FALSE] ELSE w : w \in writes} \cup
            {[note |-> id,
              row |-> SaveRow([heading |-> h, content |-> ct], ivh, ivc, now),
              src |-> "force", owner |-> k,
              clean |-> /\ "force" \in watch
                        /\ PHas(pendingNotes, id)
                        /\ saveTimers[id] # 0
                        /\ TimerOf(id, saveTimers[id]) \in timers
                        /\ WritesOf(id) = {},
              data |-> [heading |-> h, content |-> ct]]}
  /\ hist' = [hist EXCEPT !.latest[id] = NoData, !.forced[id] = NoData,
                          !.deleted[id] = FALSE, !.postDelWrite[id] = FALSE,
                          !.refused[id] =
                             IF Encryptable([heading |-> h, content |-> ct])
                             THEN @ ELSE W("absent", TRUE, @),
                          !.forceResp[id] =
                             IF Encryptable([heading |-> h, content |-> ct])
                             THEN @ ELSE W("keep", 500, @),
                          !.kept[id] = NoData]
  /\ UNCHANGED <<pendingNotes, saveTimers, noteEditStartTimes, timers, dels, gets,
                 store, proc, signals, now, relay, getResp, listing>>
  /\ UNCHANGED <<watch, client>>

DeleteNote(id) ==
  /\ proc = "running"
  /\ id \notin dels
  /\ timers' = Cleared(id)
  /\ saveTimers' = [saveTimers EXCEPT ![id] = 0]
  /\ pendingNotes' = PDelete(pendingNotes, id)
  /\ dels' = dels \cup {id}
  /\ hist' = [hist EXCEPT
       !.deleted[id] = /\ "delete" \in watch
                       /\ PHas(pendingNotes, id)
                       /\ hist.editTimer[id] # 0
                       /\ TimerOf(id, hist.editTimer[id]) \in timers,
       !.postDelWrite[id] = FALSE,
       !.latest[id] = NoData,
       !.forced[id] = NoData,
       !.firstEdit[id] = NoTime,
       !.kept[id] = NoData]
  /\ UNCHANGED <<noteEditStartTimes, writes, gets, store, proc, signals, now,
                 relay, getResp, listing>>
  /\ UNCHANGED <<watch, client>>

DeleteOk(id) ==
  /\ proc = "running"
  /\ id \in dels
  /\ dels' = dels \ {id}
  /\ store' = [store EXCEPT ![id] = NoRow]
  /\ hist' = [hist EXCEPT !.persisted[id] = NoData, !.created[id] = NoTime]
  /\ UNCHANGED <<coord, gets, proc, signals, now, relay, getResp, listing>>
  /\ UNCHANGED <<watch, client>>

DeleteFail(id) ==
  /\ proc = "running"
  /\ id \in dels
  /\ dels' = dels \ {id}
  /\ UNCHANGED <<coord, gets, store, proc, signals, now, relay, getResp, listing, hist>>
  /\ UNCHANGED <<watch, client>>

\* SIGTERM and SIGINT run the same handler: one save per pending entry, then
\* Promise.all and process.exit(0).  iv gives each save its two random ivs.  A
\* save that fails in encrypt has settled before the handler awaits.
Savable == {id \in PKeys(pendingNotes) : Encryptable(PGet(pendingNotes, id))}

Signal(iv) ==
  /\ proc = "running"
  /\ signals < MaxSignals
  /\ signals' = signals + 1
  /\ writes' = writes \cup
       {[note |-> id,
         row |-> SaveRow(PGet(pendingNotes, id), iv[id][1], iv[id][2], now),
         src |-> "drain", owner |-> signals + 1, clean |-> FALSE,
         data |-> Plain2(PGet(pendingNotes, id))] :
          id \in Savable}
  /\ proc' = IF Savable = {} THEN "exited" ELSE proc
  /\ hist' = [hist EXCEPT
       !.drains[signals + 1] =
          W("drain", [pend |-> PKeys(pendingNotes),
                      started |-> PKeys(pendingNotes),
                      settled |-> PKeys(pendingNotes) \ Savable,
                      failed |-> PKeys(pendingNotes) \ Savable], @),
       !.shutPend = IF signals = 0 THEN W("drain", PKeys(pendingNotes), @) ELSE @]
  /\ UNCHANGED <<pendingNotes, saveTimers, noteEditStartTimes, timers, dels, gets,
                 store, now, relay, getResp, listing>>
  /\ UNCHANGED <<watch, client>>

Tick ==
  /\ proc = "running"
  /\ now < MaxTime
  /\ now' = now + 1
  /\ UNCHANGED <<coord, dels, gets, store, proc, signals, relay, getResp, listing, hist>>
  /\ UNCHANGED <<watch, client>>


\* ------------------------------------------------------------------ GET /api/note/:noteId
FreeGets(id) == {k \in 1..MaxGets : ~\E g \in gets : g.note = id /\ g.slot = k}

\* The route up to its first await: pending data is returned at once, otherwise
\* the select is sent.  expect (history) is the latest edit the request follows,
\* from (history) the pending record or the store row the response was built from,
\* saved (history) the heading and content last persisted to that row.
GetNote(id) ==
  /\ proc = "running"
  /\ IF PHas(pendingNotes, id)
     THEN /\ getResp' = [note |-> id, status |-> 200,
                         heading |-> PGet(pendingNotes, id).heading,
                         content |-> PGet(pendingNotes, id).content,
                         updatedAt |-> PGet(pendingNotes, id).updated_at,
                         isLocalData |-> TRUE, expect |-> hist.latest[id],
                         from |-> PGet(pendingNotes, id), saved |-> NoData]
          /\ UNCHANGED gets
     ELSE /\ \E k \in FreeGets(id) :
               /\ \A j \in FreeGets(id) : k <= j
               /\ gets' = gets \cup {[note |-> id, slot |-> k, phase |-> "select",
                                      t |-> 0, expect |-> hist.latest[id]]}
          /\ UNCHANGED getResp
  /\ UNCHANGED <<coord, dels, store, proc, signals, now, relay, listing, hist>>
  /\ UNCHANGED <<watch, client>>

Failed(g, row) == [note |-> g.note, status |-> 500, expect |-> g.expect, from |-> row]

\* The select returns: no row (PGRST116) sends the insert of an empty note; a row
\* is decrypted and returned, a decrypt that throws gives the 500 of the catch.
GetSelectOk(g) ==
  /\ proc = "running"
  /\ g \in gets
  /\ g.phase = "select"
  /\ IF store[g.note] = NoRow
     THEN /\ gets' = (gets \ {g}) \cup {[g EXCEPT !.phase = "insert", !.t = now]}
          /\ UNCHANGED getResp
     ELSE /\ gets' = gets \ {g}
          /\ getResp' =
               IF DecryptError \in {Plain(store[g.note]).heading, Plain(store[g.note]).content}
               THEN Failed(g, store[g.note])
               ELSE [note |-> g.note, status |-> 200,
                     heading |-> Plain(store[g.note]).heading,
                     content |-> Plain(store[g.note]).content,
                     createdAt |-> store[g.note].created_at,
                     updatedAt |-> store[g.note].updated_at,
                     isLocalData |-> FALSE, expect |-> g.expect,
                     from |-> store[g.note], saved |-> hist.persisted[g.note]]
  /\ UNCHANGED <<coord, dels, store, proc, signals, now, relay, listing, hist>>
  /\ UNCHANGED <<watch, client>>

\* The insert of the empty note succeeds: note_id is unique, so only with no row.
GetInsertOk(g) ==
  /\ proc = "running"
  /\ g \in gets
  /\ g.phase = "insert"
  /\ store[g.note] = NoRow
  /\ gets' = gets \ {g}
  /\ store' = [store EXCEPT ![g.note] =
                 [heading |-> EmptyField, content |-> EmptyField,
                  created_at |-> g.t, updated_at |-> g.t]]
  /\ getResp' = [note |-> g.note, status |-> 200, heading |-> <<>>, content |-> <<>>,
                 createdAt |-> g.t, updatedAt |-> g.t, isLocalData |-> FALSE,
                 expect |-> g.expect, from |-> store'[g.note], saved |-> NoData]
  /\ hist' = [hist EXCEPT !.created[g.note] = W("stamp", g.t, @)]
  /\ UNCHANGED <<coord, dels, proc, signals, now, relay, listing>>
  /\ UNCHANGED <<watch, client>>

\* The insert finds a row of the same note_id, the column the upsert conflicts
\* on: createError is thrown and the catch answers 500.
GetInsertDup(g) ==
  /\ proc = "running"
  /\ g \in gets
  /\ g.phase = "insert"
  /\ store[g.note] # NoRow
  /\ gets' = gets \ {g}
  /\ getResp' = Failed(g, NoRow)
  /\ UNCHANGED <<coord, dels, store, proc, signals, now, relay, listing, hist>>
  /\ UNCHANGED <<watch, client>>

\* The select or the insert reports an error: the catch answers 500.
GetFail(g) ==
  /\ proc = "running"
  /\ g \in gets
  /\ gets' = gets \ {g}
  /\ getResp' = Failed(g, NoRow)
  /\ UNCHANGED <<coord, dels, store, proc, signals, now, relay, listing, hist>>
  /\ UNCHANGED <<watch, client>>

\* ------------------------------------------------------------------ GET /api/notes
SummaryLen == 100
Ellipsis == <<46, 46, 46>>

\* substring(0, 100) with the marker appended whatever the length.
SummaryAlwaysMarked(content) ==
  IF Len(content) >= SummaryLen
  THEN SubSeq(content, 1, SummaryLen) \o Ellipsis
  ELSE content

Summary(content) ==
  IF Len(content) > SummaryLen
  THEN SubSeq(content, 1, SummaryLen) \o Ellipsis
  ELSE content

OrElseUntitled(heading) == IF heading \in {<<>>, Undefined} THEN Untitled ELSE heading

\* The row mapped without the try/catch around each decrypt.
StoredEntryUnguarded(id) ==
  [noteId |-> id,
   heading |-> OrElseUntitled(Plain(store[id]).heading),
   content |-> Summary(Plain(store[id]).content),
   createdAt |-> store[id].created_at,
   updatedAt |-> store[id].updated_at]

StoredEntry(id) ==
  LET h == Plain(store[id]).heading
      c == Plain(store[id]).content
  IN [noteId |-> id,
      heading |-> OrElseUntitled(IF h = DecryptError THEN Untitled ELSE h),
      content |-> Summary(IF c = DecryptError THEN <<>> ELSE c),
      createdAt |-> store[id].created_at,
      updatedAt |-> store[id].updated_at]

PendingEntry(e) ==
  [noteId |-> e.noteId,
   heading |-> OrElseUntitled(e.data.heading),
   content |-> Summary(e.data.content),
   createdAt |-> e.data.created_at,
   updatedAt |-> e.data.updated_at]

StoredIds == {id \in NoteIds : store[id] # NoRow}

\* The orders the select may return: every stored row once, updated_at descending.
StoreOrders ==
  {o \in [1..Cardinality(StoredIds) -> StoredIds] :
     /\ \A i, j \in DOMAIN o : i # j => o[i] # o[j]
     /\ \A i, j \in DOMAIN o : i < j => store[o[i]].updated_at >= store[o[j]].updated_at}

\* Each pending entry, in Map order, is unshifted onto the decrypted rows.
RECURSIVE UnshiftAll(_, _)
UnshiftAll(p, list) ==
  IF p = <<>> THEN list ELSE UnshiftAll(Tail(p), <<PendingEntry(Head(p))>> \o list)

\* listing.pending and listing.stored (history) are the Map and the table the
\* response was built from.
NotesResponse(o) == UnshiftAll(pendingNotes, [i \in DOMAIN o |-> StoredEntry(o[i])])

\* data?.content.substring throws a TypeError when the pending content is
\* undefined: the catch answers 500.
PendingThrows == \E i \in DOMAIN pendingNotes : pendingNotes[i].data.content = Undefined

GetNotes ==
  /\ proc = "running"
  /\ \E o \in StoreOrders :
       listing' =
         IF PendingThrows
         THEN [status |-> 500, notes |-> <<>>, pending |-> pendingNotes, stored |-> store]
         ELSE [status |-> 200, notes |-> NotesResponse(o), pending |-> pendingNotes,
               stored |-> store]
  /\ UNCHANGED <<coord, dels, gets, store, proc, signals, now, relay, getResp, hist>>
  /\ UNCHANGED <<watch, client>>

GetNotesFail ==
  /\ proc = "running"
  /\ listing' = [status |-> 500, notes |-> <<>>, pending |-> pendingNotes, stored |-> store]
  /\ UNCHANGED <<coord, dels, gets, store, proc, signals, now, relay, getResp, hist>>
  /\ UNCHANGED <<watch, client>>


\* ------------------------------------------------------------------ specifications
Saves(ids, eds, ivs) ==
  \/ \E id \in ids, d \in eds : NoteUpdate("X", id, d.heading, d.content)
  \/ \E id \in ids, k \in 1..MaxTimers, ivh \in ivs, ivc \in ivs : TimerFire(id, k, ivh, ivc)
  \/ \E w \in writes : WriteOk(w)
  \/ \E w \in writes : WriteFail(w)

Forces(ids, eds, ivs) ==
  \E id \in ids, d \in eds, ivh \in ivs, ivc \in ivs :
    ForceSave(id, d.heading, d.content, ivh, ivc)

Deletes(ids) ==
  \/ \E id \in ids : DeleteNote(id)
  \/ \E id \in ids : DeleteOk(id)
  \/ \E id \in ids : DeleteFail(id)

Fetches(ids) ==
  \/ \E id \in ids : GetNote(id)
  \/ \E g \in gets : GetSelectOk(g)
  \/ \E g \in gets : GetInsertOk(g)
  \/ \E g \in gets : GetFail(g)

Shutdown(ivs) == \E iv \in [NoteIds -> ivs \X ivs] : Signal(iv)

Sockets ==
  \/ \E c \in Conns : Connect(c)
  \/ \E c \in Conns, id \in NoteIds : JoinNote(c, id)
  \/ \E c \in Conns : Disconnect(c)

\* Every handler, every note, every socket.
Next ==
  \/ Sockets
  \/ \E c \in Conns, id \in NoteIds, d \in Edits : NoteUpdate(c, id, d.heading, d.content)
  \/ \E id \in NoteIds, k \in 1..MaxTimers, ivh \in IVs, ivc \in IVs : TimerFire(id, k, ivh, ivc)
  \/ \E w \in writes : WriteOk(w)
  \/ \E w \in writes : WriteFail(w)
  \/ Forces(NoteIds, Edits, IVs)
  \/ Deletes(NoteIds)
  \/ Fetches(NoteIds)
  \/ \E g \in gets : GetInsertDup(g)
  \/ GetNotes
  \/ GetNotesFail
  \/ Shutdown(IVs)
  \/ Tick

Spec == Init /\ [][Next]_vars

\* One note: note-update events, timer firings and store-write completions.
SpecCoalesce == Serving({"run", "latest"}) /\ [][Saves(OneNote, Edits, OneIV)]_vars

\* One note: the same, and fetches by id.
NextRead ==
  \/ Saves(OneNote, Edits, OneIV)
  \/ Fetches(OneNote)

SpecRead == Serving({"latest"}) /\ [][NextRead]_vars

\* One note: edits, flushes and DELETE requests.
NextDelete ==
  \/ Saves(OneNote, Edits, OneIV)
  \/ Deletes(OneNote)

SpecDelete == Serving({"run", "delete"}) /\ [][NextDelete]_vars

\* One note: edits, flushes and force-save requests.
NextForce ==
  \/ Saves(OneNote, Edits, OneIV)
  \/ Forces(OneNote, Edits, OneIV)

SpecForce == Serving({"force"}) /\ [][NextForce]_vars

\* Both notes edited and flushed while shutdown signals arrive.
NextShutdown ==
  \/ Saves(NoteIds, OneEdit, OneIV)
  \/ Shutdown(OneIV)

SpecShutdown == Serving({"drain"}) /\ [][NextShutdown]_vars

\* Sockets connect, join rooms, disconnect and send note-update.
NextRelay ==
  \/ Sockets
  \/ \E c \in Conns, id \in NoteIds, d \in Edits : NoteUpdate(c, id, d.heading, d.content)

SpecRelay == Init /\ [][NextRelay]_vars

\* Both notes edited, n1 fetched (created on first fetch) as the clock advances,
\* and both listed.
NextList ==
  \/ \E id \in NoteIds, d \in OneEdit : NoteUpdate("X", id, d.heading, d.content)
  \/ Fetches(OneNote)
  \/ GetNotes
  \/ GetNotesFail
  \/ Tick

SpecList == Serving({}) /\ [][NextList]_vars

\* ------------------------------------------------------------------ properties
LiveTimers(id) == {t \in timers : t.note = id}

\* C1 (coalescing): for a run of note-update events of one note, each arriving
\* before the timer of the one before has fired, the timer callbacks issue no
\* upsert for the note until the last edit's timer fires, and then exactly one,
\* carrying the last edit's heading and content.
Coalescing ==
  \A id \in NoteIds :
    hist.editTimer[id] # 0 =>
      IF hist.editFired[id]
      THEN hist.autoWrites[id] = <<hist.latest[id]>>
      ELSE hist.autoWrites[id] = <<>>

\* C2 (read the latest edit): a successful GET /api/note/:id received after the
\* latest note-update of the note returns that edit's heading and content.
ReadLatest ==
  (getResp.status = 200 /\ getResp.expect # NoData) =>
     /\ getResp.heading = getResp.expect.heading
     /\ getResp.content = getResp.expect.content

\* C3 (deletion cancels pending work): once DELETE is handled while the latest
\* edit's timer is still scheduled, and until the next edit or force-save, the
\* note has no pending record, no saveTimers entry and no scheduled timer, and
\* no upsert is issued for it.
DeleteCancels ==
  \A id \in NoteIds :
    hist.deleted[id] =>
      /\ ~PHas(pendingNotes, id)
      /\ saveTimers[id] = 0
      /\ LiveTimers(id) = {}
      /\ ~hist.postDelWrite[id]

\* C4 (force-save supersedes the auto-save): after a force-save of D, requested
\* with a pending record and a scheduled timer and followed by no note-update,
\* has reported success, the store holds D and the note has no pending record,
\* no saveTimers entry and no scheduled timer.
ForceSupersedes ==
  \A id \in NoteIds :
    hist.forced[id] # NoData =>
      /\ store[id] # NoRow
      /\ Plain(store[id]) = hist.forced[id]
      /\ ~PHas(pendingNotes, id)
      /\ saveTimers[id] = 0
      /\ LiveTimers(id) = {}

\* C5 (per-id serialization): at most one upsert is in flight for a note.
OneWriteInFlight == \A id \in NoteIds : Cardinality(WritesOf(id)) <= 1

\* C6 (drain completeness): when the process has exited, every signal's handler
\* has started a save for each note pending at the signal and has seen each of
\* them settle.
DrainComplete ==
  proc = "exited" =>
    \A k \in 1..signals :
      /\ hist.drains[k].started = hist.drains[k].pend
      /\ hist.drains[k].settled = hist.drains[k].pend

\* C7 (drain exactly once): from the first signal on, no note pending at that
\* signal is written to the store twice, and at exit each one no drain save of
\* which failed has been written once.
DrainOnce ==
  \A id \in hist.shutPend :
    /\ hist.shutWrites[id] <= 1
    /\ (proc = "exited" /\ \A k \in 1..MaxSignals : id \notin hist.drains[k].failed)
          => hist.shutWrites[id] = 1

\* C8 (broadcast exclusion): a note-update from socket X for room R is delivered,
\* with the heading and content recorded for R, to exactly the connected sockets
\* other than X that have joined R, and never to X.
BroadcastExclusion ==
  [][lastEmit' # lastEmit =>
       /\ lastEmit'.from \notin lastEmit'.to
       /\ lastEmit'.to =
            {d \in Conns : d # lastEmit'.from /\ d \in connected /\ lastEmit'.room \in rooms[d]}
       /\ lastEmit'.heading = PGet(pendingNotes', lastEmit'.room).heading
       /\ lastEmit'.content = PGet(pendingNotes', lastEmit'.room).content]_vars

BroadcastDelivered ==
  /\ lastEmit.to # {}
  /\ lastEmit.room \in rooms[lastEmit.from]
  /\ \E d \in connected \ (lastEmit.to \cup {lastEmit.from}) : lastEmit.room \notin rooms[d]

\* C9 (listing merge): a listing has at most one entry per note id, and for a
\* note with a pending record that entry carries the pending heading and content.
ListingMerge ==
  listing.status = 200 =>
    /\ \A i, j \in DOMAIN listing.notes :
         i # j => listing.notes[i].noteId # listing.notes[j].noteId
    /\ \A k \in DOMAIN listing.pending :
         \E i \in DOMAIN listing.notes : listing.notes[i] = PendingEntry(listing.pending[k])

\* C10 (listing order): a listing is ordered by updatedAt, descending.
ListingOrder ==
  listing.status = 200 =>
    \A i, j \in DOMAIN listing.notes :
      i < j => listing.notes[i].updatedAt >= listing.notes[j].updatedAt

\* ------------------------------------------------------------------ summaries
Long(n) == [i \in 1..n |-> 97]

\* Contents just over and exactly at the summary length.
SummaryEdits ==
  {[heading |-> <<72>>, content |-> Long(SummaryLen + 1)],
   [heading |-> <<72>>, content |-> Long(SummaryLen)]}

\* One note edited, force-saved, fetched and listed, every store call succeeding.
NextSummary ==
  \/ \E d \in SummaryEdits : NoteUpdate("X", "n1", d.heading, d.content)
  \/ ForceSave("n1", <<72>>, Long(SummaryLen + 1), 1, 1)
  \/ \E w \in writes : WriteOk(w)
  \/ GetNote("n1")
  \/ \E g \in gets : GetSelectOk(g)
  \/ \E g \in gets : GetInsertOk(g)
  \/ GetNotes

SpecSummary == Serving({}) /\ [][NextSummary]_vars

\* The content a listing entry summarises: entry i comes from the pending record
\* unshifted i-th from last, or from the stored row of its note.
ListedContent(i) ==
  IF i <= Len(listing.pending)
  THEN listing.pending[Len(listing.pending) - i + 1].data.content
  ELSE LET f == listing.stored[listing.notes[i].noteId].content
       IN IF f.encrypted = <<>> \/ decrypt(f) = DecryptError THEN <<>> ELSE decrypt(f)

\* The content a fetch by id was built from.
FetchedContent ==
  IF getResp.isLocalData THEN getResp.from.content
  ELSE IF getResp.from.content.encrypted = <<>> THEN <<>>
  ELSE decrypt(getResp.from.content)

\* C11 (summary truncation): every entry of a listing, pending or persisted,
\* shows the whole content when it has at most 100 characters and its first 100
\* characters followed by "..." when it has more; a fetch by id returns the
\* whole content.
SummaryTruncation ==
  /\ listing.status = 200 =>
       \A i \in DOMAIN listing.notes :
         LET c == ListedContent(i)
         IN IF Len(c) <= 100
            THEN listing.notes[i].content = c
            ELSE /\ Len(listing.notes[i].content) = 103
                 /\ SubSeq(listing.notes[i].content, 1, 100) = SubSeq(c, 1, 100)
                 /\ SubSeq(listing.notes[i].content, 101, 103) = <<46, 46, 46>>
  /\ getResp.status = 200 => getResp.content = FetchedContent

\* A listing with a pending entry of exactly 100 characters over a truncated
\* persisted entry, and a fetch from the store that returned more than 100
\* characters.
SummaryTruncated ==
  /\ listing.status = 200
  /\ Len(listing.pending) = 1
  /\ Len(listing.notes) = 2
  /\ Len(listing.notes[1].content) = 100
  /\ Len(listing.notes[2].content) = 103
  /\ getResp.status = 200
  /\ ~getResp.isLocalData
  /\ Len(getResp.content) = 101

\* ------------------------------------------------------------------ isolation
\* Every operation on n1; n2 edited and force-saved; every store call succeeds.
NextIsolation ==
  \/ \E id \in NoteIds : NoteUpdate("X", id, <<72>>, <<97>>)
  \/ \E k \in 1..MaxTimers : TimerFire("n1", k, 1, 1)
  \/ \E w \in writes : WriteOk(w)
  \/ \E id \in NoteIds : ForceSave(id, <<>>, <<98>>, 1, 1)
  \/ DeleteNote("n1")
  \/ DeleteOk("n1")

SpecIsolation == Serving({}) /\ [][NextIsolation]_vars

\* A step that is an operation on note a: a note-update, a timer firing, the
\* completion of a save, a force-save or a delete.
OperationOn(a) ==
  \/ \E d \in Edits : NoteUpdate("X", a, d.heading, d.content)
  \/ \E k \in 1..MaxTimers : TimerFire(a, k, 1, 1)
  \/ \E w \in WritesOf(a) : WriteOk(w) \/ WriteFail(w)
  \/ \E d \in Edits : ForceSave(a, d.heading, d.content, 1, 1)
  \/ DeleteNote(a)
  \/ DeleteOk(a)
  \/ DeleteFail(a)

\* C12 (isolation between ids): an operation on note A leaves the pending
\* record, the saveTimers entry, the scheduled timers and the stored record of
\* every other note B unchanged.
Isolation ==
  [][\A a \in NoteIds :
       OperationOn(a) =>
         \A b \in NoteIds \ {a} :
           /\ PGet(pendingNotes', b) = PGet(pendingNotes, b)
           /\ saveTimers'[b] = saveTimers[b]
           /\ {t \in timers' : t.note = b} = {t \in timers : t.note = b}
           /\ store'[b] = store[b]]_vars

\* Both notes have a pending record, a scheduled timer and a stored record, and
\* n1 has since been deleted from the store and edited again.
IsolationExercised ==
  /\ PHas(pendingNotes, "n1") /\ PHas(pendingNotes, "n2")
  /\ LiveTimers("n1") # {} /\ LiveTimers("n2") # {}
  /\ store["n1"] = NoRow /\ store["n2"] # NoRow
  /\ "n1" \in dels

\* ------------------------------------------------------------------ round trip
\* Payloads: both fields empty; two- and three-byte characters and a surrogate
\* pair; a heading that ends in an unpaired high surrogate.
RoundTripEdits ==
  {[heading |-> <<>>, content |-> <<>>],
   [heading |-> <<233, 8364>>, content |-> <<55357, 56832>>],
   [heading |-> <<72, 55357>>, content |-> <<97>>]}

\* One note edited, flushed by its timer or force-saved, and fetched.
NextRoundTrip ==
  \/ Saves(OneNote, OneEdit, OneIV)
  \/ Forces(OneNote, RoundTripEdits, OneIV)
  \/ Fetches(OneNote)

SpecRoundTrip == Serving({"persist"}) /\ [][NextRoundTrip]_vars

\* C13 (store round trip): a fetch by id answered from the store returns exactly
\* the heading and content of the save last persisted to the note's row.
RoundTrip ==
  (getResp.status = 200 /\ ~getResp.isLocalData /\ getResp.saved # NoData) =>
     /\ getResp.heading = getResp.saved.heading
     /\ getResp.content = getResp.saved.content

\* ------------------------------------------------------------------ decryption failure
\* A stored field whose tag no longer authenticates its ciphertext (the row was
\* damaged in the table, or written under another key): decrypt throws on it.
Corrupt(id, f) ==
  /\ proc = "running"
  /\ store[id] # NoRow
  /\ store[id][f].encrypted # <<>>
  /\ decrypt(store[id][f]) # DecryptError
  /\ store' = [store EXCEPT ![id][f].authTag = (@ + 1) % Byte]
  /\ UNCHANGED <<coord, dels, gets, proc, signals, now, relay, getResp, listing, hist>>
  /\ UNCHANGED <<watch, client>>

\* Both notes force-saved, n1 damaged in the store and fetched, both listed.
NextDecrypt ==
  \/ \E id \in NoteIds : ForceSave(id, <<72>>, <<97>>, 1, 2)
  \/ \E w \in writes : WriteOk(w)
  \/ \E f \in {"heading", "content"} : Corrupt("n1", f)
  \/ GetNote("n1")
  \/ \E g \in gets : GetSelectOk(g)
  \/ GetNotes

SpecDecrypt == Serving({}) /\ [][NextDecrypt]_vars

Throws(field) == field.encrypted # <<>> /\ decrypt(field) = DecryptError

\* C14 (decryption failure): a listing is still produced when a stored field does
\* not authenticate; the note is listed with heading "Untitled" for a failed
\* heading and empty content for failed content, its other field and the other
\* notes as stored; a fetch by id of such a note answers 500 and never a
\* plaintext.
DecryptFailure ==
  /\ proc = "running" => ENABLED GetNotes
  /\ listing.status = 200 =>
       \A i \in DOMAIN listing.notes :
         i > Len(listing.pending) =>
           LET row == listing.stored[listing.notes[i].noteId]
           IN /\ listing.notes[i].heading =
                   IF Throws(row.heading) \/ row.heading.encrypted = <<>>
                   THEN Untitled
                   ELSE decrypt(row.heading)
              /\ listing.notes[i].content =
                   IF Throws(row.content) \/ row.content.encrypted = <<>>
                   THEN <<>>
                   ELSE decrypt(row.content)
  /\ (getResp.status = 200 /\ ~getResp.isLocalData) =>
        ~Throws(getResp.from.heading) /\ ~Throws(getResp.from.content)

\* A listing of two stored notes, the first with a heading that fails and content
\* that does not, the second intact, and a fetch of the first answered 500.
DecryptFailureListed ==
  /\ listing.status = 200
  /\ Len(listing.notes) = 2
  /\ \E i \in 1..2 :
       /\ Throws(listing.stored[listing.notes[i].noteId].heading)
       /\ ~Throws(listing.stored[listing.notes[i].noteId].content)
       /\ listing.notes[i].heading = Untitled
       /\ listing.notes[i].content = <<97>>
       /\ listing.notes[3 - i].heading = <<72>>
       /\ getResp.status = 500
       /\ getResp.note = listing.notes[i].noteId
       /\ getResp.from # NoRow
       /\ Throws(getResp.from.heading)

\* ------------------------------------------------------------------ failed flush
\* One note edited and flushed, upserts succeeding or failing, and listed.
NextFlushFail ==
  \/ Saves(OneNote, OneEdit, OneIV)
  \/ GetNotes

SpecFlushFail == Serving({"run", "flush"}) /\ [][NextFlushFail]_vars

AbsentEdits ==
  {[heading |-> Undefined, content |-> <<97>>],
   [heading |-> <<72>>, content |-> Undefined],
   [heading |-> <<72>>, content |-> <<97>>]}

\* One note edited, flushed, force-saved, fetched and listed; every store call
\* succeeds.
NextAbsent ==
  \/ \E d \in AbsentEdits : NoteUpdate("X", "n1", d.heading, d.content)
  \/ \E k \in 1..MaxTimers : TimerFire("n1", k, 1, 1)
  \/ \E w \in writes : WriteOk(w)
  \/ \E d \in AbsentEdits : ForceSave("n1", d.heading, d.content, 1, 1)
  \/ GetNote("n1")
  \/ \E g \in gets : GetSelectOk(g)
  \/ \E g \in gets : GetInsertOk(g)
  \/ GetNotes

SpecAbsent == Serving({"absent"}) /\ [][NextAbsent]_vars

\* C16 (absent fields are empty strings): with the store answering every call,
\* no save of a note is refused and no listing fails.
AbsentAsEmpty ==
  /\ \A id \in NoteIds : ~hist.refused[id]
  /\ listing.status # 500

\* ------------------------------------------------------------------ fetch auto-create
\* Both notes fetched, requests overlapping, and edited; the store answers every
\* call and refuses only a second row of a note_id.
NextCreate ==
  \/ \E id \in NoteIds : GetNote(id)
  \/ \E g \in gets : GetSelectOk(g)
  \/ \E g \in gets : GetInsertOk(g)
  \/ \E g \in gets : GetInsertDup(g)
  \/ \E id \in NoteIds : NoteUpdate("X", id, <<72>>, <<97>>)

SpecCreate == Serving({}) /\ [][NextCreate]_vars

\* C17 (fetch auto-create): with the store answering every call, every fetch by
\* id succeeds, and one that found neither a pending record nor a row returns an
\* empty heading and content and leaves an empty row.
FetchAutoCreate ==
  /\ getResp.status # 500
  /\ (getResp.status = 200 /\ ~getResp.isLocalData
        /\ getResp.from.heading = EmptyField /\ getResp.from.content = EmptyField) =>
        getResp.heading = <<>> /\ getResp.content = <<>>

\* ------------------------------------------------------------------ client
server == <<pendingNotes, saveTimers, noteEditStartTimes, timers, writes, dels,
            gets, store, proc, signals, now, getResp, listing, hist, watch>>

\* The POST routes of the server under /api/note/:noteId/, and the one the
\* client's saveNote requests.
PostRoutes == {"force-save"}
ClientSaveRoute == "save"

\* createNewNote: a fresh note is opened empty; the effects emit join-note and
\* start the debounce timer.
ClientOpen(c, id) ==
  /\ proc = "running"
  /\ c \in connected
  /\ client[c].note # id
  /\ client' = [client EXCEPT ![c].note = id, ![c].heading = <<>>,
                              ![c].content = <<>>, ![c].timer = TRUE, ![c].got = ""]
  /\ rooms' = [rooms EXCEPT ![c] = @ \cup {id}]
  /\ UNCHANGED <<server, connected, lastEmit>>

\* The user changes heading and content: the effect restarts the 2 s debounce.
ClientType(c, d) ==
  /\ client[c].note # ""
  /\ <<client[c].heading, client[c].content>> # <<d.heading, d.content>>
  /\ client' = [client EXCEPT ![c].heading = d.heading, ![c].content = d.content,
                              ![c].timer = TRUE]
  /\ UNCHANGED <<server, relay>>

\* saveNote up to its await: the POST is sent.
SendSave(c) ==
  [client EXCEPT ![c].posts = @ \cup {[note |-> client[c].note,
                                       heading |-> client[c].heading,
                                       content |-> client[c].content]}]

\* The debounce elapses: saveNote(false) when the note is not empty.
ClientDebounce(c) ==
  /\ client[c].timer
  /\ Cardinality(client[c].posts) < MaxPosts
  /\ client' =
       IF client[c].note # "" /\ (client[c].heading # <<>> \/ client[c].content # <<>>)
       THEN [SendSave(c) EXCEPT ![c].timer = FALSE]
       ELSE [client EXCEPT ![c].timer = FALSE]
  /\ UNCHANGED <<server, relay>>

\* Ctrl+S or the save button: saveNote(true).
ClientSave(c) ==
  /\ client[c].note # ""
  /\ Cardinality(client[c].posts) < MaxPosts
  /\ client' = SendSave(c)
  /\ UNCHANGED <<server, relay>>

\* The POST reaches the server: no route matches /api/note/:noteId/save, Express
\* answers 404, response.ok is false and saveNote emits nothing.
ClientPosted(c, p) ==
  /\ proc = "running"
  /\ p \in client[c].posts
  /\ ClientSaveRoute \notin PostRoutes
  /\ client' = [client EXCEPT ![c].posts = @ \ {p}, ![c].settled = p]
  /\ UNCHANGED <<server, relay>>

\* Two clients open the notes, type and save.
NextClient ==
  \/ \E c \in {"X", "Y"} : Connect(c)
  \/ \E c \in {"X", "Y"}, id \in NoteIds : ClientOpen(c, id)
  \/ \E c \in {"X", "Y"}, d \in Edits : ClientType(c, d)
  \/ \E c \in {"X", "Y"} : ClientDebounce(c)
  \/ \E c \in {"X", "Y"} : ClientSave(c)
  \/ \E c \in {"X", "Y"} : \E p \in client[c].posts : ClientPosted(c, p)

SpecClient == Serving({}) /\ [][NextClient]_vars

\* C18 (client edits reach the relay): once a client's saveNote call for a
\* non-empty note has finished, the server has received a note-update for the
\* note: it holds a pending record and a scheduled timer for it.
ClientEditsRelayed ==
  \A c \in Conns :
    LET p == client[c].settled
    IN (p # NoData /\ (p.heading # <<>> \/ p.content # <<>>)) =>
         /\ PHas(pendingNotes, p.note)
         /\ LiveTimers(p.note) # {}

\* ------------------------------------------------------------------ eventual persistence
\* One note edited, flushed and force-saved; no delete, no signal, and every
\* upsert succeeds.
NextPersist ==
  \/ \E d \in Edits : NoteUpdate("X", "n1", d.heading, d.content)
  \/ \E k \in 1..MaxTimers : TimerFire("n1", k, 1, 1)
  \/ \E w \in writes : WriteOk(w)
  \/ ForceSave("n1", <<72>>, <<97>>, 1, 1)

\* A scheduled timeout comes due and an upsert in flight is answered.
FairPersist ==
  /\ \A k \in 1..MaxTimers : WF_vars(TimerFire("n1", k, 1, 1))
  /\ WF_vars(\E w \in writes : WriteOk(w))

SpecPersist == Serving({"latest"}) /\ [][NextPersist]_vars /\ FairPersist

\* C19 (eventual persistence): while D stays the latest edit of a note, the
\* store eventually holds D for it and the note is no longer pending.
EventualPersistence ==
  \A id \in NoteIds, d \in Edits :
    (hist.latest[id] = d) ~>
       \/ hist.latest[id] # d
       \/ /\ store[id] # NoRow
          /\ Plain(store[id]) = d
          /\ ~PHas(pendingNotes, id)

\* ------------------------------------------------------------------ timers
\* C20 (single live timer): a note has at most one scheduled timer, and
\* saveTimers holds the handle of a timer that is scheduled.
SingleLiveTimer ==
  \A id \in NoteIds :
    /\ Cardinality(LiveTimers(id)) <= 1
    /\ \A t \in LiveTimers(id) : saveTimers[id] = t.h

\* ------------------------------------------------------------------ edit sessions
\* One note edited, flushed and deleted as the clock advances.
NextSession ==
  \/ Saves(OneNote, OneEdit, OneIV)
  \/ DeleteNote("n1")
  \/ DeleteOk("n1")
  \/ Tick

SpecSession == Serving({"session"}) /\ [][NextSession]_vars

\* C21 (edit-session start time): the created_at of a pending record is the time
\* of the first note-update of its note since the server started or since the
\* note was last persisted or deleted.
SessionStart ==
  \A id \in NoteIds :
    (PHas(pendingNotes, id) /\ hist.firstEdit[id] # NoTime) =>
       PGet(pendingNotes, id).created_at = hist.firstEdit[id]

\* ------------------------------------------------------------------ timestamps
\* One note fetched (created on first fetch), edited, flushed and listed as the
\* clock advances; every store call succeeds.
NextStamps ==
  \/ NoteUpdate("X", "n1", <<72>>, <<97>>)
  \/ \E k \in 1..MaxTimers : TimerFire("n1", k, 1, 1)
  \/ \E w \in writes : WriteOk(w)
  \/ GetNote("n1")
  \/ \E g \in gets : GetSelectOk(g)
  \/ \E g \in gets : GetInsertOk(g)
  \/ GetNotes
  \/ Tick

SpecStamps == Serving({"stamp"}) /\ [][NextStamps]_vars

\* C22 (timestamps): every pending record and every stored row has created_at <=
\* updated_at; a stored row keeps the created_at it was inserted with; and every
\* createdAt a fetch by id or a listing reports for a note that has a row is that
\* created_at.
Timestamps ==
  /\ \A i \in DOMAIN pendingNotes :
       pendingNotes[i].data.created_at <= pendingNotes[i].data.updated_at
  /\ \A id \in StoredIds :
       /\ store[id].created_at <= store[id].updated_at
       /\ hist.created[id] # NoTime => store[id].created_at = hist.created[id]
  /\ (getResp.status = 200 /\ ~getResp.isLocalData) =>
        getResp.createdAt = getResp.from.created_at
  /\ listing.status = 200 =>
       \A i \in DOMAIN listing.notes :
         listing.stored[listing.notes[i].noteId] # NoRow =>
           listing.notes[i].createdAt = listing.stored[listing.notes[i].noteId].created_at

\* ------------------------------------------------------------------ rooms
\* The client's note-updated handler, run on the server's last broadcast: the
\* event carries heading and content only; both are set, and a change of either
\* restarts the debounce.
ClientNoteUpdated(c) ==
  /\ c \in connected
  /\ c \in lastEmit.to
  /\ client' = [client EXCEPT
       ![c].heading = lastEmit.heading,
       ![c].content = lastEmit.content,
       ![c].timer = IF <<lastEmit.heading, lastEmit.content>> #
                       <<client[c].heading, client[c].content>>
                    THEN client[c].note # "" ELSE @,
       ![c].got = lastEmit.room]
  /\ UNCHANGED <<server, relay>>

\* Client X opens one note and then the other; Y sends note-update for either
\* note; X handles the events it is sent.
NextRooms ==
  \/ Connect("Y")
  \/ \E id \in NoteIds : ClientOpen("X", id)
  \/ \E d \in Edits : ClientType("X", d)
  \/ \E id \in NoteIds, d \in Edits : NoteUpdate("Y", id, d.heading, d.content)
  \/ ClientNoteUpdated("X")

SpecRooms == Serving({}) /\ [][NextRooms]_vars

\* C23 (room membership follows the viewed note): every note-updated event a
\* client handles while it views a note was broadcast to the room of that note.
RoomFollowsView ==
  \A c \in Conns : client[c].got # "" => client[c].got = client[c].note

\* ------------------------------------------------------------------ failed force-save
\* One note edited, flushed and force-saved; the upsert of a force-save succeeds
\* or fails, the upsert of a timer succeeds.
NextKeep ==
  \/ \E d \in Edits : NoteUpdate("X", "n1", d.heading, d.content)
  \/ \E k \in 1..MaxTimers : TimerFire("n1", k, 1, 1)
  \/ \E w \in writes : WriteOk(w)
  \/ \E w \in writes : w.src = "force" /\ WriteFail(w)
  \/ ForceSave("n1", <<72>>, <<97>>, 1, 1)

\* A scheduled timeout comes due and the upsert of a timer is answered.
FairKeep ==
  /\ \A k \in 1..MaxTimers : WF_vars(TimerFire("n1", k, 1, 1))
  /\ WF_vars(\E w \in writes : w.src = "timer" /\ WriteOk(w))

SpecKeep == Serving({"keep"}) /\ [][NextKeep]_vars /\ FairKeep

\* The failure of a force-save's upsert answers 500 and leaves the pending
\* records, the saveTimers entries and the scheduled timers as they are.
ForceFailUnchanged ==
  [][\A w \in writes :
       (w.src = "force" /\ WriteFail(w)) =>
          /\ hist'.forceResp[w.note] = 500
          /\ pendingNotes' = pendingNotes
          /\ saveTimers' = saveTimers
          /\ timers' = timers]_vars

\* The pending edit a failed force-save left with its timer reaches the store,
\* unless an edit, a force-save or a delete of the note is requested first.
ForceFailFlushed ==
  \A id \in NoteIds, d \in Edits :
    (hist.kept[id] = d) ~>
       \/ hist.kept[id] # d
       \/ store[id] # NoRow /\ Plain(store[id]) = d

\* C24 (force-save failure leaves the coordinator unchanged): a force-save whose
\* upsert fails answers with a failure status and changes neither the pending
\* record nor the scheduled timer of the note, and the pending edit is flushed
\* later by its timer.
ForceFailKeeps == ForceFailUnchanged /\ ForceFailFlushed

====
